---- MODULE Spec2Model ----
(***************************************************************************)
(* Model of attendance_app.py: the geofenced staff sign-in service.        *)
(*                                                                         *)
(* Strings are sequences of tokens: " " is a whitespace token, "," the     *)
(* comma, every other token a run of non-blank characters.  Distances are  *)
(* in micrometres, times of day in seconds, dates are day numbers (the ISO *)
(* format of a date is injective, so a date string is its day number).     *)
(***************************************************************************)
EXTENDS Integers, Sequences, FiniteSets, TLC

VARIABLES file, staffFile, clock, thr

vars == <<file, staffFile, clock, thr>>

None == "None"

\* ------------------------------------------------------------------ bounds
\* sign-ins are followed until the ledger holds MaxRows rows
MaxRows == 2

\* ------------------------------------------------------------------ config
OFFICE_LATITUDE == "6.43090"
OFFICE_LONGITUDE == "3.43615"
ALLOWED_RADIUS_METERS == 30

SIGNIN_START_TIME == (5 * 3600) + (0 * 60) + 0
ONTIME_END_TIME == (8 * 3600) + (30 * 60) + 0

FIELDNAMES == <<"staff_id", "date", "time", "status", "ip", "distance_meters">>

Micro == 1000 * 1000

\* ------------------------------------------------------------- str methods
IsSpace(c) == c = " "

RECURSIVE lstrip(_)
lstrip(s) == IF s # <<>> /\ IsSpace(Head(s)) THEN lstrip(Tail(s)) ELSE s

RECURSIVE rstrip(_)
rstrip(s) ==
    IF s # <<>> /\ IsSpace(s[Len(s)]) THEN rstrip(SubSeq(s, 1, Len(s) - 1)) ELSE s

strip(s) == rstrip(lstrip(s))

UpperTok(c) ==
    CASE c = "a1" -> "A1"
      [] c = "b2" -> "B2"
      [] c = "ann" -> "ANN"
      [] OTHER -> c

upper(s) == [i \in DOMAIN s |-> UpperTok(s[i])]

\* s.split(",")[0]: the tokens before the first comma
RECURSIVE split_first(_)
split_first(s) ==
    IF s = <<>> \/ Head(s) = "," THEN <<>> ELSE <<Head(s)>> \o split_first(Tail(s))

\* ---------------------------------------------------------------- distance
\* calculate_distance on the coordinates the requests use, as the function
\* returns them (haversine, R = 6371000), truncated to micrometres.
DistanceTable ==
    { [lat |-> "6.43090", lon |-> "3.43615", um |-> 0],
      [lat |-> "6.431169789880962", lon |-> "3.4361518992", um |-> 30000000],
      [lat |-> "6.43117", lon |-> "3.43615", um |-> 30022630],
      [lat |-> "6.4399", lon |-> "3.43615", um |-> 1000754339] }

calculate_distance(lat1, lon1, lat2, lon2) ==
    (CHOOSE e \in DistanceTable : e.lat = lat1 /\ e.lon = lon1).um

\* int(distance): truncation to whole metres
int(d) == d \div Micro

\* round(distance, 2), in hundredths of a metre (round half to even)
round2(d) ==
    LET q == d \div 10000
        r == d % 10000
    IN  IF r > 5000 \/ (r = 5000 /\ q % 2 = 1) THEN q + 1 ELSE q

\* -------------------------------------------------------------------- time
\* now.strftime("%I:%M %p")
strftime(tod) ==
    LET h == tod \div 3600
        m == (tod % 3600) \div 60
    IN  [I |-> IF h % 12 = 0 THEN 12 ELSE h % 12,
         M |-> m,
         p |-> IF h < 12 THEN "AM" ELSE "PM"]

NoTime == [I |-> 0, M |-> 0, p |-> ""]
NoClock == [day |-> 0, tod |-> 0]

\* ------------------------------------------------------------------ inputs
JsonNull == [t |-> "null", v |-> <<>>]
JsonStr(s) == [t |-> "str", v |-> s]

\* staff_id values of the request body
StaffIdValues ==
    { JsonNull, JsonStr(<<" ">>), JsonStr(<<"a1">>), JsonStr(<<" ", "A1", " ">>),
      JsonStr(<<"b2">>) }

\* latitude / longitude values of the request body (None: the key is missing)
Coordinates ==
    { [latitude |-> e.lat, longitude |-> e.lon] : e \in DistanceTable }
      \cup { [latitude |-> None, longitude |-> OFFICE_LONGITUDE] }

\* X-Forwarded-For header (NoHeader: absent) and the connection's address
NoHeader == <<"<absent>">>
Origins ==
    { [xff |-> NoHeader, remote_addr |-> <<"10.0.0.1">>],
      [xff |-> <<" ", "10.0.0.2", ",", " ", "10.0.0.1">>, remote_addr |-> <<"10.0.0.1">>] }

Request(s, c, o) ==
    [staff_id |-> s, latitude |-> c.latitude, longitude |-> c.longitude,
     xff |-> o.xff, remote_addr |-> o.remote_addr]

OfficeCoordinates == [latitude |-> OFFICE_LATITUDE, longitude |-> OFFICE_LONGITUDE]
DirectOrigin == [xff |-> NoHeader, remote_addr |-> <<"10.0.0.1">>]

\* every staff_id from every origin at the office, and a blank and a proper
\* staff_id from every other position
Requests ==
    { Request(s, OfficeCoordinates, o) : s \in StaffIdValues, o \in Origins }
      \cup { Request(s, c, DirectOrigin) :
                s \in {JsonStr(<<" ">>), JsonStr(<<"a1">>)}, c \in Coordinates }

NoRequest ==
    [staff_id |-> JsonNull, latitude |-> None, longitude |-> None,
     xff |-> NoHeader, remote_addr |-> <<>>]

\* readings of the wall clock: seconds of the day around the two boundaries
TimesOfDay ==
    { SIGNIN_START_TIME - 1, SIGNIN_START_TIME, ONTIME_END_TIME, ONTIME_END_TIME + 1 }

END_OF_DAY == (23 * 3600) + (59 * 60) + 59

\* a first day with every time of day, and a second day before the start and
\* at its last second
Readings ==
    { [day |-> 1, tod |-> t] : t \in TimesOfDay }
      \cup { [day |-> 2, tod |-> t] : t \in {SIGNIN_START_TIME - 1, END_OF_DAY} }

Before(a, b) == a.day < b.day \/ (a.day = b.day /\ a.tod < b.tod)

\* the reading that follows r
NextReading(r) ==
    CHOOSE n \in Readings :
        Before(r, n) /\ \A m \in Readings : Before(r, m) => ~Before(m, n)

\* contents of staff_list.csv (None: the file is absent)
NoStaffFile == <<[staff_id |-> <<"<absent>">>, staff_name |-> <<>>]>>
StaffFiles ==
    { NoStaffFile,
      <<[staff_id |-> <<" ", "a1">>, staff_name |-> <<"ann", " ">>]>> }

\* ------------------------------------------------------------- the store
NoFile == [exists |-> FALSE, header |-> <<>>, rows |-> <<>>]

\* mutant: the existence test always fails
path_exists_never(f) == FALSE

\* os.path.exists(DATA_FILE)
path_exists(f) == f.exists

\* mutant: the file is created without its header
write_header_blank(f) == [exists |-> TRUE, header |-> <<>>, rows |-> <<>>]

\* open(DATA_FILE, "w") and writeheader(): creates or truncates the file
write_header(f) == [exists |-> TRUE, header |-> FIELDNAMES, rows |-> <<>>]

\* csv.DictReader over the whole file: the rows after the header
read_rows(f) == f.rows

\* mutant: the row is written twice
append_row_twice(f, row) ==
    [f EXCEPT !.exists = TRUE, !.rows = Append(Append(f.rows, row), row)]

\* open(DATA_FILE, "a") and writerow(row)
append_row(f, row) == [f EXCEPT !.exists = TRUE, !.rows = Append(f.rows, row)]

\* ------------------------------------------------------------ load_staff
RECURSIVE staff_dict(_, _)
staff_dict(rows, acc) ==
    IF rows = <<>> THEN acc
    ELSE LET key == upper(strip(Head(rows).staff_id))
             val == strip(Head(rows).staff_name)
         IN  staff_dict(Tail(rows), { e \in acc : e[1] # key } \cup { <<key, val>> })

\* the mapping staff_id -> staff_name, as a set of <<key, value>> pairs
load_staff(sf) == IF sf = NoStaffFile THEN {} ELSE staff_dict(sf, {})

\* ----------------------------------------------------------- get_user_ip
get_user_ip(req) ==
    IF req.xff # NoHeader THEN strip(split_first(req.xff)) ELSE req.remote_addr

\* ------------------------------------------------------ the checks of signin
\* data.get("staff_id", "").strip().upper()
normalize(raw) == upper(strip(raw))

\* if not staff_id
missing_staff_id(staff_id) == staff_id = <<>>

\* mutant: the boundary itself is outside
outside_perimeter_ge(distance) == distance >= ALLOWED_RADIUS_METERS * Micro

\* if distance > ALLOWED_RADIUS_METERS
outside_perimeter(distance) == distance > ALLOWED_RADIUS_METERS * Micro

\* mutant: the start time itself is too early
before_start_le(now) == now.tod <= SIGNIN_START_TIME

\* if now.time() < SIGNIN_START_TIME
before_start(now) == now.tod < SIGNIN_START_TIME

\* mutant: the cutoff itself is late
status_of_lt(now) == IF now.tod < ONTIME_END_TIME THEN "ON TIME" ELSE "LATE"

\* "ON TIME" if now.time() <= ONTIME_END_TIME else "LATE"
status_of(now) == IF now.tod <= ONTIME_END_TIME THEN "ON TIME" ELSE "LATE"

\* now.date().isoformat()
isoformat(now) == now.day

\* mutant: the date of the rows is left out of both tests
RECURSIVE find_conflict_any_day(_, _, _, _)
find_conflict_any_day(rows, staff_id, user_ip, today) ==
    IF rows = <<>> THEN "none"
    ELSE IF Head(rows).staff_id = staff_id THEN "staff"
    ELSE IF Head(rows).ip = user_ip THEN "device"
    ELSE find_conflict_any_day(Tail(rows), staff_id, user_ip, today)

\* mutant: the staff test is left out of the loop
RECURSIVE find_conflict_device_only(_, _, _, _)
find_conflict_device_only(rows, staff_id, user_ip, today) ==
    IF rows = <<>> THEN "none"
    ELSE IF Head(rows).ip = user_ip /\ Head(rows).date = today THEN "device"
    ELSE find_conflict_device_only(Tail(rows), staff_id, user_ip, today)

\* mutant: the device test is left out of the loop
RECURSIVE find_conflict_staff_only(_, _, _, _)
find_conflict_staff_only(rows, staff_id, user_ip, today) ==
    IF rows = <<>> THEN "none"
    ELSE IF Head(rows).staff_id = staff_id /\ Head(rows).date = today THEN "staff"
    ELSE find_conflict_staff_only(Tail(rows), staff_id, user_ip, today)

\* mutant: the loop compares nothing
find_conflict_never(rows, staff_id, user_ip, today) == "none"

\* the loop over the rows: the first row that matches decides, and within a
\* row the staff test comes before the device test
RECURSIVE find_conflict(_, _, _, _)
find_conflict(rows, staff_id, user_ip, today) ==
    IF rows = <<>> THEN "none"
    ELSE LET row == Head(rows)
         IN  IF row.staff_id = staff_id /\ row.date = today THEN "staff"
             ELSE IF row.ip = user_ip /\ row.date = today THEN "device"
             ELSE find_conflict(Tail(rows), staff_id, user_ip, today)

\* the row writerow() writes, as DictReader reads it back
new_row(staff_id, now, status, user_ip, distance) ==
    [staff_id |-> staff_id,
     date |-> isoformat(now),
     time |-> strftime(now.tod),
     status |-> status,
     ip |-> user_ip,
     distance_meters |-> round2(distance)]

\* --------------------------------------------------------------- responses
NoBody == [message |-> <<>>, time |-> NoTime, status |-> ""]
Message(m) == [message |-> m, time |-> NoTime, status |-> ""]

MsgRequired == <<"Staff ID is required">>
MsgOutside(distance) ==
    <<"You are outside the office perimeter (", ToString(int(distance)), "m away)">>
MsgNotStarted == <<"Sign-in has not started yet">>
MsgStaffDup == <<"This staff has already signed in today">>
MsgDeviceDup == <<"This device has already signed in today">>
MsgSuccess == <<"Sign-in successful">>
MsgServerError == <<"Internal Server Error">>

\* ------------------------------------------------- a request being handled
\* the handler's position (pc), its request, its locals and its response;
\* trace lists the checks and writes it has carried out, seen is the number
\* of rows its duplicate scan read
Idle ==
    [op |-> "none", pc |-> "idle", req |-> NoRequest,
     staff_id |-> <<>>, user_ip |-> <<>>, distance |-> -1,
     now |-> NoClock, status |-> "", trace |-> <<>>, seen |-> 0,
     code |-> 0, body |-> NoBody, signed_ids |-> <<>>, staff |-> {}]

Start(op, req) ==
    [Idle EXCEPT !.op = op, !.req = req,
                 !.pc = IF op = "staff_list" THEN "load_staff" ELSE "ensure_csv"]

Finish(f, code, body) == [f EXCEPT !.pc = "done", !.code = code, !.body = body]

\* an uncaught exception: Flask answers 500
Crash(f, err) ==
    [f EXCEPT !.pc = "done", !.code = 500, !.body = Message(MsgServerError),
              !.trace = Append(@, err)]

\* where each route continues after ensure_csv()
AfterEnsure(op) ==
    CASE op = "index" -> "render"
      [] op = "signed_today" -> "read_today"
      [] op = "signin" -> "validate"

\* ensure_csv, first half: the existence test
EnsureExists(f, fl) ==
    [f |-> [f EXCEPT !.pc = IF path_exists(fl) THEN AfterEnsure(f.op) ELSE "create"],
     file |-> fl]

\* ensure_csv, second half: create the file and write the header
EnsureCreate(f, fl) ==
    [f |-> [f EXCEPT !.pc = AfterEnsure(f.op)], file |-> write_header(fl)]

\* index: render_template
Render(f, fl) == [f |-> Finish(f, 200, NoBody), file |-> fl]

\* staff_list
LoadStaff(f, fl, sf) ==
    [f |-> Finish([f EXCEPT !.staff = load_staff(sf)], 200, NoBody), file |-> fl]

\* mutant: the date of the rows is not compared
RECURSIVE ids_of_any_date(_, _)
ids_of_any_date(rows, today) ==
    IF rows = <<>> THEN <<>>
    ELSE <<Head(rows).staff_id>> \o ids_of_any_date(Tail(rows), today)

\* signed_today, after ensure_csv
RECURSIVE ids_of_date(_, _)
ids_of_date(rows, today) ==
    IF rows = <<>> THEN <<>>
    ELSE (IF Head(rows).date = today THEN <<Head(rows).staff_id>> ELSE <<>>)
           \o ids_of_date(Tail(rows), today)

ReadToday(f, fl, clk) ==
    IF ~fl.exists THEN [f |-> Crash(f, "FileNotFoundError"), file |-> fl]
    ELSE [f |-> Finish([f EXCEPT !.now = clk,
                                 !.signed_ids = ids_of_date(read_rows(fl), isoformat(clk))],
                       200, NoBody),
          file |-> fl]

\* mutant: the time check is made before the geofence check
ValidateTimeFirst(f, clk) ==
    LET data == f.req
    IN  IF data.staff_id.t # "str" THEN Crash(f, "AttributeError")
        ELSE
        LET staff_id == normalize(data.staff_id.v)
            lat == data.latitude
            lon == data.longitude
            f1 == [f EXCEPT !.staff_id = staff_id, !.user_ip = get_user_ip(data),
                            !.trace = Append(@, "input")]
            f2 == [f1 EXCEPT !.now = clk, !.trace = Append(@, "time")]
        IN  IF missing_staff_id(staff_id) THEN Finish(f1, 400, Message(MsgRequired))
            ELSE IF before_start(clk) THEN Finish(f2, 403, Message(MsgNotStarted))
            ELSE IF lat = None \/ lon = None THEN Crash(f2, "TypeError")
            ELSE
            LET distance == calculate_distance(lat, lon, OFFICE_LATITUDE, OFFICE_LONGITUDE)
                f3 == [f2 EXCEPT !.distance = distance, !.trace = Append(@, "geofence")]
            IN  IF outside_perimeter(distance)
                THEN Finish(f3, 403, Message(MsgOutside(distance)))
                ELSE [f3 EXCEPT !.status = status_of(clk), !.pc = "scan"]

\* signin, from reading the body to the status: input, geofence and time checks
Validate(f, clk) ==
    LET data == f.req
    IN  IF data.staff_id.t # "str" THEN Crash(f, "AttributeError")
        ELSE
        LET staff_id == normalize(data.staff_id.v)
            lat == data.latitude
            lon == data.longitude
            user_ip == get_user_ip(data)
            f1 == [f EXCEPT !.staff_id = staff_id, !.user_ip = user_ip,
                            !.trace = Append(@, "input")]
        IN  IF missing_staff_id(staff_id) THEN Finish(f1, 400, Message(MsgRequired))
            ELSE IF lat = None \/ lon = None THEN Crash(f1, "TypeError")
            ELSE
            LET distance == calculate_distance(lat, lon, OFFICE_LATITUDE, OFFICE_LONGITUDE)
                f2 == [f1 EXCEPT !.distance = distance, !.trace = Append(@, "geofence")]
            IN  IF outside_perimeter(distance)
                THEN Finish(f2, 403, Message(MsgOutside(distance)))
                ELSE
                LET now == clk
                    f3 == [f2 EXCEPT !.now = now, !.trace = Append(@, "time")]
                IN  IF before_start(now) THEN Finish(f3, 403, Message(MsgNotStarted))
                    ELSE [f3 EXCEPT !.status = status_of(now), !.pc = "scan"]

\* signin: the duplicate checks
Scan(f, fl) ==
    IF ~fl.exists THEN [f |-> Crash(f, "FileNotFoundError"), file |-> fl]
    ELSE
    LET found == find_conflict(read_rows(fl), f.staff_id, f.user_ip, isoformat(f.now))
        f1 == [f EXCEPT !.trace = Append(@, "duplicate"), !.seen = Len(read_rows(fl))]
    IN  [f |-> CASE found = "staff" -> Finish(f1, 409, Message(MsgStaffDup))
                 [] found = "device" -> Finish(f1, 409, Message(MsgDeviceDup))
                 [] OTHER -> [f1 EXCEPT !.pc = "save"],
         file |-> fl]

\* mutant: the success response reports ON TIME whatever was stored
SaveAnsweringOnTime(f, fl) ==
    [f |-> Finish([f EXCEPT !.trace = Append(@, "save")], 200,
                  [message |-> MsgSuccess, time |-> strftime(f.now.tod),
                   status |-> "ON TIME"]),
     file |-> append_row(fl, new_row(f.staff_id, f.now, f.status, f.user_ip, f.distance))]

\* signin: the append and the success response
Save(f, fl) ==
    [f |-> Finish([f EXCEPT !.trace = Append(@, "save")], 200,
                  [message |-> MsgSuccess, time |-> strftime(f.now.tod),
                   status |-> f.status]),
     file |-> append_row(fl, new_row(f.staff_id, f.now, f.status, f.user_ip, f.distance))]

\* mutant: signin turns away a staff identifier that is not in the directory
StepCheckingDirectory(f, fl, sf, clk) ==
    CASE f.pc = "ensure_csv" -> EnsureExists(f, fl)
      [] f.pc = "create" -> EnsureCreate(f, fl)
      [] f.pc = "render" -> Render(f, fl)
      [] f.pc = "load_staff" -> LoadStaff(f, fl, sf)
      [] f.pc = "read_today" -> ReadToday(f, fl, clk)
      [] f.pc = "validate" ->
           [f |-> IF /\ f.req.staff_id.t = "str"
                     /\ \A e \in load_staff(sf) : e[1] # normalize(f.req.staff_id.v)
                  THEN Finish(f, 403, Message(<<"Unknown staff">>))
                  ELSE Validate(f, clk),
            file |-> fl]
      [] f.pc = "scan" -> Scan(f, fl)
      [] f.pc = "save" -> Save(f, fl)

\* one step of a handler
Step(f, fl, sf, clk) ==
    CASE f.pc = "ensure_csv" -> EnsureExists(f, fl)
      [] f.pc = "create" -> EnsureCreate(f, fl)
      [] f.pc = "render" -> Render(f, fl)
      [] f.pc = "load_staff" -> LoadStaff(f, fl, sf)
      [] f.pc = "read_today" -> ReadToday(f, fl, clk)
      [] f.pc = "validate" -> [f |-> Validate(f, clk), file |-> fl]
      [] f.pc = "scan" -> Scan(f, fl)
      [] f.pc = "save" -> Save(f, fl)

\* a handler run from where it is to its response, nothing interleaved
RECURSIVE Run(_, _, _, _)
Run(f, fl, sf, clk) ==
    IF f.pc = "done" THEN [f |-> f, file |-> fl]
    ELSE LET r == Step(f, fl, sf, clk) IN Run(r.f, r.file, sf, clk)

\* ---------------------------------------------------------------- threads
Threads == {"t1", "t2"}
SeqThread == "t1"

Init ==
    /\ file = NoFile
    /\ staffFile \in StaffFiles
    /\ clock = [day |-> 1, tod |-> SIGNIN_START_TIME - 1]
    /\ thr = [t \in Threads |-> Idle]

\* ----------------------------------------------- sequential specification
\* time passes, then one request is handled from start to response
Handle(t, op, req) ==
    LET res == Run(Start(op, req), file, staffFile, clock)
    IN  /\ Len(res.file.rows) <= MaxRows
        /\ thr' = [thr EXCEPT ![t] = res.f]
        /\ file' = res.file
        /\ UNCHANGED <<staffFile, clock>>

\* time passes
Tick ==
    /\ \E n \in Readings : Before(clock, n)
    /\ clock' = NextReading(clock)
    /\ UNCHANGED <<file, staffFile, thr>>

Index == Handle(SeqThread, "index", NoRequest)
StaffList == Handle(SeqThread, "staff_list", NoRequest)
SignedToday == Handle(SeqThread, "signed_today", NoRequest)
SignIn == \E req \in Requests : Handle(SeqThread, "signin", req)

Next == Index \/ StaffList \/ SignedToday \/ SignIn \/ Tick

Spec == Init /\ [][Next]_vars

\* ----------------------------------------------- concurrent specification
\* the host starts a thread per request and does not coordinate them: each
\* thread takes one request and runs its handler one step at a time, the
\* steps of the threads interleaved
ForwardedOrigin ==
    [xff |-> <<" ", "10.0.0.2", ",", " ", "10.0.0.1">>, remote_addr |-> <<"10.0.0.1">>]

ConcRequests ==
    { Request(JsonStr(<<"a1">>), OfficeCoordinates, DirectOrigin),
      Request(JsonStr(<<" ", "A1", " ">>), OfficeCoordinates, ForwardedOrigin),
      Request(JsonStr(<<"b2">>), OfficeCoordinates, DirectOrigin) }

Begin(t, op, req) ==
    /\ thr[t].pc = "idle"
    /\ thr' = [thr EXCEPT ![t] = Start(op, req)]
    /\ UNCHANGED <<file, staffFile, clock>>

BeginIndex(t) == Begin(t, "index", NoRequest)
BeginStaffList(t) == Begin(t, "staff_list", NoRequest)
BeginSignedToday(t) == Begin(t, "signed_today", NoRequest)
BeginSignIn(t) == \E req \in ConcRequests : Begin(t, "signin", req)

StepThread(t) ==
    /\ thr[t].pc \notin {"idle", "done"}
    /\ LET res == Step(thr[t], file, staffFile, clock)
       IN  /\ thr' = [thr EXCEPT ![t] = res.f]
           /\ file' = res.file
    /\ UNCHANGED <<staffFile, clock>>

NextConc ==
    \/ \E t \in Threads :
          \/ BeginIndex(t)
          \/ BeginStaffList(t)
          \/ BeginSignedToday(t)
          \/ BeginSignIn(t)
          \/ StepThread(t)
    \/ Tick

SpecConc == Init /\ [][NextConc]_vars


\* ================================================================== claims
\* the request handled last under Spec, and the ledger
Last == thr[SeqThread]
Rows == file.rows

SameStaffDay(a, b) == a.staff_id = b.staff_id /\ a.date = b.date
SameDeviceDay(a, b) == a.ip = b.ip /\ a.date = b.date

HasStaffEntry(rows, staff_id, today) ==
    \E i \in DOMAIN rows : rows[i].staff_id = staff_id /\ rows[i].date = today
HasDeviceEntry(rows, user_ip, today) ==
    \E i \in DOMAIN rows : rows[i].ip = user_ip /\ rows[i].date = today

SignInDone(f) == f.op = "signin" /\ f.pc = "done"
Ran(f, what) == \E i \in DOMAIN f.trace : f.trace[i] = what

\* C1: under sequential requests the ledger never holds two entries with the
\* same staff identifier and the same date.
C1_OneEntryPerStaffDay ==
    \A i, j \in DOMAIN Rows : SameStaffDay(Rows[i], Rows[j]) => i = j

\* C1 witness: a staff identifier has an entry on each of two dates, and its
\* further sign-in on the second date has just been rejected as a duplicate.
C1_Witness ==
    /\ SignInDone(Last) /\ Last.code = 409 /\ Last.body.message = MsgStaffDup
    /\ \E i, j \in DOMAIN Rows :
          /\ Rows[i].staff_id = Last.staff_id /\ Rows[j].staff_id = Last.staff_id
          /\ Rows[i].date # Rows[j].date

\* C2: under sequential requests the ledger never holds two entries with the
\* same address and the same date, and a sign-in that reaches the duplicate
\* check from an address that has an entry for today, with a staff identifier
\* that has none, is answered 409 with the device message.
C2_OneEntryPerDeviceDay ==
    /\ \A i, j \in DOMAIN Rows : SameDeviceDay(Rows[i], Rows[j]) => i = j
    /\ (/\ SignInDone(Last) /\ Ran(Last, "duplicate")
        /\ HasDeviceEntry(Rows, Last.user_ip, isoformat(Last.now))
        /\ ~HasStaffEntry(Rows, Last.staff_id, isoformat(Last.now)))
       => Last.code = 409 /\ Last.body.message = MsgDeviceDup

\* C2 witness: a second staff identifier has just been turned away from an
\* address that signed in earlier the same day.
C2_Witness ==
    /\ SignInDone(Last) /\ Last.code = 409 /\ Last.body.message = MsgDeviceDup
    /\ \E i \in DOMAIN Rows :
          /\ Rows[i].ip = Last.user_ip /\ Rows[i].date = isoformat(Last.now)
          /\ Rows[i].staff_id # Last.staff_id

\* the row a sign-in handler writes
RowOf(f) == new_row(f.staff_id, f.now, f.status, f.user_ip, f.distance)

\* C3: with interleaved requests two entries for the same (staff, date) or
\* (address, date) key do occur, and only through the race: the handler that
\* wrote the later entry finished its scan before the earlier one was appended.
C3_DuplicatesOnlyByRace ==
    \A i, j \in DOMAIN Rows :
        (i < j /\ (SameStaffDay(Rows[i], Rows[j]) \/ SameDeviceDay(Rows[i], Rows[j])))
        => \E t \in Threads :
              /\ SignInDone(thr[t]) /\ thr[t].code = 200
              /\ RowOf(thr[t]) = Rows[j]
              /\ thr[t].seen < i

\* C3 witness: both handlers answered success and the ledger holds two entries
\* for one staff identifier on one date.
C3_Witness ==
    /\ \A t \in Threads : SignInDone(thr[t]) /\ thr[t].code = 200
    /\ Len(Rows) = 2
    /\ SameStaffDay(Rows[1], Rows[2])

IsPrefix(a, b) == Len(a) <= Len(b) /\ SubSeq(b, 1, Len(a)) = a

\* C4: a sign-in answered with success has appended exactly one entry, the
\* one built from its request, and a sign-in answered 400, 403 or 409 has
\* left the entries as they were.
C4_OneAppendPerSuccess ==
    [][(Last'.op = "signin" /\ <<thr, file>> # <<thr, file>>')
        => /\ Last'.code = 200 => Rows' = Append(Rows, RowOf(Last'))
           /\ Last'.code \in {400, 403, 409} => Rows' = Rows]_vars

\* C4 witness: a second sign-in has succeeded and its entry is the second row.
C4_Witness ==
    /\ SignInDone(Last) /\ Last.code = 200
    /\ Len(Rows) = 2 /\ Rows[2] = RowOf(Last)

\* C5: under sequential requests every step of every endpoint leaves the
\* entries it found as a prefix of the entries it leaves.
C5_AppendOnly == [][IsPrefix(Rows, Rows')]_vars

\* C5 witness: GET / has run on a store that holds entries.
C5_Witness == Last.op = "index" /\ Last.pc = "done" /\ Len(Rows) >= 1

\* C6: once the distance of a sign-in is computed, the answer is the geofence
\* rejection (403, perimeter message) if the distance is above the radius, and
\* is not the geofence rejection if it is at or below the radius.
C6_GeofenceBoundary ==
    (SignInDone(Last) /\ Ran(Last, "geofence"))
    => /\ Last.distance > ALLOWED_RADIUS_METERS * Micro
          => Last.code = 403 /\ Last.body.message = MsgOutside(Last.distance)
       /\ Last.distance <= ALLOWED_RADIUS_METERS * Micro
          => Last.body.message # MsgOutside(Last.distance)

\* C6 witness: a sign-in from exactly the radius has been accepted.
C6_Witness ==
    /\ SignInDone(Last) /\ Last.code = 200
    /\ Last.distance = ALLOWED_RADIUS_METERS * Micro

\* C7: a sign-in that passed the input and geofence checks is answered 403
\* "Sign-in has not started yet" exactly when its time of day is before the
\* start time.
C7_TimeWindow ==
    (SignInDone(Last) /\ Ran(Last, "time"))
    => ((Last.code = 403 /\ Last.body.message = MsgNotStarted)
          <=> Last.now.tod < SIGNIN_START_TIME)

\* C7 witness: a sign-in in the last second of a day has been accepted.
C7_Witness ==
    SignInDone(Last) /\ Last.code = 200 /\ Last.now.tod = END_OF_DAY

\* C8: every entry's status is one of the two values (ON_TIME is written
\* "ON TIME"), and the latest committed entry is LATE exactly when its
\* sign-in's time of day is after the cutoff, with the same status in the
\* response.
C8_StatusByCutoff ==
    /\ \A i \in DOMAIN Rows : Rows[i].status \in {"ON TIME", "LATE"}
    /\ (SignInDone(Last) /\ Last.code = 200)
       => /\ Rows[Len(Rows)].status = Last.body.status
          /\ Last.body.status =
               (IF Last.now.tod > ONTIME_END_TIME THEN "LATE" ELSE "ON TIME")

\* C8 witness: a sign-in exactly at the cutoff has been committed as on time.
C8_Witness ==
    /\ SignInDone(Last) /\ Last.code = 200 /\ Last.now.tod = ONTIME_END_TIME
    /\ Rows[Len(Rows)].status = "ON TIME"

\* the entries the request handled last found in the ledger
PreRows == IF Last.code = 200 THEN SubSeq(Rows, 1, Len(Rows) - 1) ELSE Rows

\* C9: in the duplicate check the staff test has precedence whatever the order
\* of the entries: a request whose staff identifier has an entry for today is
\* answered with the staff message, and the device message is given only when
\* the staff identifier has no entry for today and the address has one.
C9_StaffBeforeDevice ==
    (SignInDone(Last) /\ Ran(Last, "duplicate"))
    => LET today == isoformat(Last.now)
       IN  /\ HasStaffEntry(PreRows, Last.staff_id, today)
              => Last.code = 409 /\ Last.body.message = MsgStaffDup
           /\ Last.body.message = MsgDeviceDup
              => /\ ~HasStaffEntry(PreRows, Last.staff_id, today)
                 /\ HasDeviceEntry(PreRows, Last.user_ip, today)

\* C10: the checks of a sign-in run in the order input, geofence, time window,
\* duplicate; the first that fails gives the answer and nothing runs after it,
\* and the append runs only after all four have passed.
C10_ChecksInOrder ==
    (SignInDone(Last) /\ Last.req.staff_id.t = "str")
    => LET id == normalize(Last.req.staff_id.v)
           located == Last.req.latitude # None /\ Last.req.longitude # None
           d == calculate_distance(Last.req.latitude, Last.req.longitude,
                                   OFFICE_LATITUDE, OFFICE_LONGITUDE)
           radius == ALLOWED_RADIUS_METERS * Micro
       IN  /\ id = <<>>
              => /\ Last.code = 400 /\ Last.body.message = MsgRequired
                 /\ Last.trace = <<"input">>
           /\ (id # <<>> /\ located /\ d > radius)
              => /\ Last.code = 403 /\ Last.body.message = MsgOutside(d)
                 /\ Last.trace = <<"input", "geofence">>
           /\ (id # <<>> /\ located /\ d <= radius)
              => /\ Ran(Last, "time")
                 /\ Last.now.tod < SIGNIN_START_TIME
                    => /\ Last.code = 403 /\ Last.body.message = MsgNotStarted
                       /\ Last.trace = <<"input", "geofence", "time">>
           /\ Last.code = 409
              => Last.trace = <<"input", "geofence", "time", "duplicate">>
           /\ Last.code = 200
              => Last.trace = <<"input", "geofence", "time", "duplicate", "save">>

\* C10 witness: a request from outside the perimeter has been answered with
\* the geofence rejection although its staff identifier already has an entry
\* for the day.
C10_Witness ==
    /\ SignInDone(Last) /\ Last.code = 403
    /\ Last.trace = <<"input", "geofence">>
    /\ HasStaffEntry(Rows, Last.staff_id, isoformat(clock))


\* C11: every sign-in ends committed or rejected with a status among 200,
\* 400, 403 and 409: 200 with the append, 400 for the missing staff
\* identifier, 403 for the geofence or the time window, 409 for a duplicate.
C11_StatusCodes ==
    SignInDone(Last)
    => /\ Last.code \in {200, 400, 403, 409}
       /\ Last.code = 200 <=> Ran(Last, "save")
       /\ Last.code = 400 <=> Last.body.message = MsgRequired
       /\ Last.code = 403
          <=> Last.body.message \in {MsgOutside(Last.distance), MsgNotStarted}
       /\ Last.code = 409 <=> Last.body.message \in {MsgStaffDup, MsgDeviceDup}


\* C12: the answer of a sign-in and the ledger it leaves are the same for
\* every content of the staff list, the absent list included: a staff
\* identifier that the directory does not hold is handled like any other.
C12_DirectoryIndependent ==
    [][(Last'.op = "signin" /\ <<thr, file>> # <<thr, file>>')
        => \A sf \in StaffFiles :
              LET r == Run(Start("signin", Last'.req), file, sf, clock)
              IN  r.f = Last' /\ r.file = file']_vars

\* C12 witness: with a staff list that names A1 only, another staff identifier
\* has signed in.
C12_Witness ==
    /\ staffFile # NoStaffFile
    /\ SignInDone(Last) /\ Last.code = 200
    /\ \A e \in load_staff(staffFile) : e[1] # Last.staff_id


\* the positions of the entries of a date, and the k-th of them
RowsOfDate(rows, day) == { i \in DOMAIN rows : rows[i].date = day }
KthOf(S, k) == CHOOSE i \in S : Cardinality({ j \in S : j <= i }) = k

\* C13: GET /signed_today answers with the staff identifiers of the entries
\* of the current date, all of them and no other, in the order of the ledger,
\* and leaves the entries as they are; asked right after a successful sign-in
\* of the same date, it lists that sign-in's normalized staff identifier.
C13_SignedToday ==
    [][(Last'.op = "signed_today" /\ <<thr, file>> # <<thr, file>>')
        => LET today == clock.day
               at == RowsOfDate(Rows, today)
               ids == Last'.signed_ids
           IN  /\ Last'.code = 200
               /\ Rows' = Rows
               /\ Len(ids) = Cardinality(at)
               /\ \A k \in DOMAIN ids : ids[k] = Rows[KthOf(at, k)].staff_id
               /\ (SignInDone(Last) /\ Last.code = 200 /\ Last.now.day = today)
                  => \E k \in DOMAIN ids :
                        ids[k] = normalize(Last.req.staff_id.v)]_vars

\* C13 witness: the ledger holds an entry of each of two dates and
\* GET /signed_today has listed the one of the current date only.
C13_Witness ==
    /\ Last.op = "signed_today" /\ Last.pc = "done"
    /\ Len(Rows) = 2 /\ Rows[1].date # Rows[2].date
    /\ Len(Last.signed_ids) = 1


\* C14: every endpoint that reads or appends to the ledger runs ensure_csv
\* first: after its step the store exists with the header and no read has
\* met a missing store; on a store that exists ensure_csv changes nothing
\* (GET /, which is ensure_csv alone, leaves it as it is, entries included),
\* and running it once more after it has run changes nothing.
C14_EnsureCsv ==
    [][(Last'.op \in {"index", "signed_today", "signin"} /\ <<thr, file>> # <<thr, file>>')
        => /\ file'.exists /\ file'.header = FIELDNAMES
           /\ ~Ran(Last', "FileNotFoundError")
           /\ file.exists => file'.header = file.header /\ IsPrefix(Rows, Rows')
           /\ (Last'.op = "index" /\ file.exists) => file' = file
           /\ Run(Start("index", NoRequest), file', staffFile, clock).file = file']_vars

\* C14 witness: GET / has run on a store that holds two entries under the
\* header.
C14_Witness ==
    /\ Last.op = "index" /\ Last.pc = "done"
    /\ file.header = FIELDNAMES /\ Len(Rows) = 2


\* a request that passes the four checks of signin against the entries rows
\* at the clock reading clk
PassesAllChecks(req, rows, clk) ==
    /\ req.staff_id.t = "str" /\ normalize(req.staff_id.v) # <<>>
    /\ req.latitude # None /\ req.longitude # None
    /\ calculate_distance(req.latitude, req.longitude, OFFICE_LATITUDE, OFFICE_LONGITUDE)
          <= ALLOWED_RADIUS_METERS * Micro
    /\ clk.tod >= SIGNIN_START_TIME
    /\ ~HasStaffEntry(rows, normalize(req.staff_id.v), clk.day)
    /\ ~HasDeviceEntry(rows, get_user_ip(req), clk.day)

\* C15: a sign-in that passes the input, geofence, time-window and duplicate
\* checks is never turned away: it is answered 200 with the success message,
\* its entry is appended, and the time and status of the response are those
\* stored in the entry.
C15_NoSpuriousRejection ==
    [][(Last'.op = "signin" /\ <<thr, file>> # <<thr, file>>'
        /\ PassesAllChecks(Last'.req, Rows, clock))
        => /\ Last'.code = 200 /\ Last'.body.message = MsgSuccess
           /\ Len(Rows') = Len(Rows) + 1
           /\ Rows'[Len(Rows')].staff_id = normalize(Last'.req.staff_id.v)
           /\ Rows'[Len(Rows')].date = clock.day
           /\ Last'.body.time = Rows'[Len(Rows')].time
           /\ Last'.body.status = Rows'[Len(Rows')].status]_vars

\* C15 witness: a second staff identifier, from a second address, has been
\* accepted on a day that already had an entry, and its entry is LATE.
C15_Witness ==
    /\ SignInDone(Last) /\ Last.code = 200
    /\ Len(Rows) = 2 /\ Rows[1].date = Rows[2].date
    /\ Last.body.status = "LATE" /\ Rows[2].status = "LATE"


\* C16: with interleaved requests on a store that did not exist, the entry
\* of every sign-in answered with success is in the ledger: the existence
\* test and the creation of ensure_csv, run by another handler around it,
\* do not remove it.
C16_CreateKeepsEntries ==
    \A t \in Threads :
        (SignInDone(thr[t]) /\ thr[t].code = 200)
        => \E i \in DOMAIN Rows : Rows[i] = RowOf(thr[t])


\* C17: every entry has a non-empty staff identifier in normalized form, and
\* a sign-in that reaches the duplicate check with an identifier whose
\* normalized form has an entry for today, however the request spelled it in
\* letter case and surrounding whitespace, is rejected as a staff duplicate.
C17_NormalizedDuplicates ==
    /\ \A i \in DOMAIN Rows :
          Rows[i].staff_id # <<>> /\ normalize(Rows[i].staff_id) = Rows[i].staff_id
    /\ (/\ SignInDone(Last) /\ Ran(Last, "duplicate")
        /\ HasStaffEntry(PreRows, normalize(Last.req.staff_id.v), isoformat(Last.now)))
       => Last.code = 409 /\ Last.body.message = MsgStaffDup


\* C18: the duplicate check looks at the entries of the current date only: a
\* sign-in that reaches it is answered 409 exactly when its staff identifier
\* or its address has an entry for today and 200 otherwise, whatever entries
\* earlier dates hold, so each can sign in again once on a later date; the
\* date stored is the date of the one clock reading the handler took, the
\* reading whose time of day passed the time-window check.
C18_DuplicatesScopedToDate ==
    [][(Last'.op = "signin" /\ <<thr, file>> # <<thr, file>>' /\ Ran(Last', "duplicate"))
        => LET today == clock.day
               taken == \/ HasStaffEntry(Rows, Last'.staff_id, today)
                        \/ HasDeviceEntry(Rows, Last'.user_ip, today)
           IN  /\ Last'.code = 409 <=> taken
               /\ Last'.code = 200 <=> ~taken
               /\ Last'.code = 200
                  => /\ Last'.now = clock /\ ~before_start(Last'.now)
                     /\ Rows'[Len(Rows')].date = isoformat(Last'.now)
                     /\ Rows'[Len(Rows')].time = strftime(Last'.now.tod)]_vars

\* C18 witness: a staff identifier and its address have an entry on one date
\* and have just signed in again on a later one.
C18_Witness ==
    /\ SignInDone(Last) /\ Last.code = 200
    /\ Len(Rows) = 2 /\ Rows[1].date < Rows[2].date
    /\ Rows[1].staff_id = Rows[2].staff_id /\ Rows[1].ip = Rows[2].ip

====
